---- MODULE Spec2Model ----
(***************************************************************************)
(* A model of the Jitterbug dm_control domain (src/jitterbug_dmc/          *)
(* jitterbug.py): the Physics accessors, the Jitterbug task's constructor, *)
(* initialize_episode, get_observation and get_reward.                     *)
(*                                                                         *)
(* Numbers.  Lengths, speeds, quaternion and matrix entries are fixed      *)
(* point, in hundredths (100 is 1.0).  Angles are counted in sixteenths of *)
(* a turn, so np.pi is 8.  Rewards are exact rationals <<n, d>>, d > 0, in *)
(* lowest terms.                                                           *)
(***************************************************************************)
EXTENDS Integers, Sequences, FiniteSets, TLC

VARIABLES
    task,       \* task[i]: self.task of instance i, or NoTask before __init__
    random,     \* random[i]: state of self.random of instance i, or NoRNG
    npRandom,   \* state of the process-wide generator behind np.random.*
    physics,    \* physics[i]: the Physics object of environment i
    seed,       \* history: the seed instance i was constructed with
    resets,     \* history: number of initialize_episode calls on instance i
    ret         \* the last call: who made it, which method, what it returned

vars == <<task, random, npRandom, physics, seed, resets, ret>>

----------------------------------------------------------------------------
(* Bounds of the model                                                     *)

MaxResets == 2
MaxSeed == 1
RngPeriod == 4

Tasks == {1, 2}
Seeds == 0 .. MaxSeed

\* The environment the single-environment specification runs.
Single == {1}

NoTask == "<none>"
\* A generator is <<state>>, a seed is <<n>>; <<>> before construction.
NoRNG == <<>>
NoSeed == <<>>
NoRet == [who |-> 0, op |-> "none", err |-> "", val |-> <<>>]

----------------------------------------------------------------------------
(* Arithmetic                                                              *)

Abs(x) == IF x < 0 THEN -x ELSE x

RECURSIVE GCD(_, _)
GCD(a, b) == IF b = 0 THEN a ELSE GCD(b, a % b)

\* The rational n/d (d # 0) in lowest terms with a positive denominator.
Rat(n, d) ==
    LET g == GCD(Abs(n), Abs(d))
        s == IF d < 0 THEN -1 ELSE 1
    IN  <<(s * n) \div g, (s * d) \div g>>

RInt(n) == <<n, 1>>
RMul(a, b) == Rat(a[1] * b[1], a[2] * b[2])
RDiv(a, b) == Rat(a[1] * b[2], a[2] * b[1])
RAdd(a, b) == Rat(a[1] * b[2] + b[1] * a[2], a[2] * b[2])
RSub(a, b) == Rat(a[1] * b[2] - b[1] * a[2], a[2] * b[2])
RLe(a, b) == a[1] * b[2] <= b[1] * a[2]
RLt(a, b) == a[1] * b[2] < b[1] * a[2]
\* Python's min(a, b) and max(a, b): the first argument wins a tie.
RMin(a, b) == IF RLt(b, a) THEN b ELSE a
RMax(a, b) == IF RLt(a, b) THEN b ELSE a

\* A fixed-point value (hundredths) as a rational.
Fixed(x) == Rat(x, 100)

RECURSIVE ISqrtFrom(_, _)
ISqrtFrom(n, r) == IF (r + 1) * (r + 1) > n THEN r ELSE ISqrtFrom(n, r + 1)
\* np.linalg.norm at the model's resolution: the integer square root.
ISqrt(n) == ISqrtFrom(n, 0)

----------------------------------------------------------------------------
(* Angles and trigonometry on the sixteenth-turn grid                      *)

\* np.pi, in sixteenths of a turn.
Pi == 8

\* cos(k * pi / 8) for k = 0 .. 15, in hundredths.
CosTable == <<100, 92, 71, 38, 0, -38, -71, -92,
              -100, -92, -71, -38, 0, 38, 71, 92>>

\* np.cos and np.sin
Cos(a) == CosTable[(a % (2 * Pi)) + 1]
Sin(a) == Cos(a - Pi \div 2)

\* The angle of (x, y) with x, y >= 0, rounded to the grid: 0 .. Pi/2.
\* The thresholds are tan(pi/16), tan(3pi/16), tan(5pi/16), tan(7pi/16).
FirstQuadrant(y, x) ==
    IF x = 0 /\ y = 0 THEN 0
    ELSE IF 1000 * y < 199 * x THEN 0
    ELSE IF 1000 * y < 668 * x THEN 1
    ELSE IF 1000 * y < 1497 * x THEN 2
    ELSE IF 1000 * y < 5027 * x THEN 3
    ELSE 4

\* np.arctan2(y, x), rounded to the grid.
Arctan2(y, x) ==
    LET q == FirstQuadrant(Abs(y), Abs(x))
    IN  IF x >= 0 THEN (IF y >= 0 THEN q ELSE -q)
        ELSE (IF y >= 0 THEN Pi - q ELSE q - Pi)

\* mjlib.mju_quat2Mat: the entries of the rotation matrix the accessors read,
\* mat[0, 0] and mat[1, 0], in units of 1e-4.
Quat2Mat00(q) == q[1] * q[1] + q[2] * q[2] - q[3] * q[3] - q[4] * q[4]
Quat2Mat10(q) == 2 * (q[2] * q[3] + q[1] * q[4])

\* The quaternion initialize_episode writes for a yaw.
YawQuat(yaw) == <<Cos(yaw \div 2), 0, 0, 1 * Sin(yaw \div 2)>>

----------------------------------------------------------------------------
(* class Physics                                                           *)

\* What the model file jitterbug.xml loads: the robot at rest at the origin,
\* upright; the target at the origin with the identity orientation and its
\* heading pointer visible.
XmlPhysics ==
    [qpos_root |-> <<0, 0, 0, 100, 0, 0, 0>>,
     qvel_root |-> <<0, 0, 0, 0, 0, 0>>,
     qpos_jointMass |-> 0,
     qvel_jointMass |-> 0,
     xmat_zz |-> 100,
     body_pos_target |-> <<0, 0, 0>>,
     body_quat_target |-> <<100, 0, 0, 0>>,
     rgba_targetPointer_alpha |-> 100]

\* data.geom_xpos["target"] and data.xquat["target"]: the target body hangs off
\* the world body, so the forward kinematics copy the model's pose.
geom_xpos_target(p) == p.body_pos_target
xquat_target(p) == p.body_quat_target

jitterbug_position(p) == p.qpos_root
jitterbug_position_xyz(p) == SubSeq(jitterbug_position(p), 1, 3)
jitterbug_position_quat(p) == SubSeq(jitterbug_position(p), 4, 7)

\* Mutant: the heading offset is five quarter turns instead of one.
jitterbug_direction_yaw_FarOffset(p) ==
    LET q == jitterbug_position_quat(p)
        yaw == Arctan2(Quat2Mat10(q), Quat2Mat00(q))
    IN  yaw - (5 * Pi) \div 2

jitterbug_direction_yaw(p) ==
    LET q == jitterbug_position_quat(p)
        yaw == Arctan2(Quat2Mat10(q), Quat2Mat00(q))
    IN  yaw - Pi \div 2

jitterbug_velocity(p) == p.qvel_root
jitterbug_velocity_xyz(p) == SubSeq(jitterbug_velocity(p), 1, 3)
jitterbug_velocity_rpy(p) == SubSeq(jitterbug_velocity(p), 4, 6)

motor_position(p) == p.qpos_jointMass
motor_velocity(p) == p.qvel_jointMass

target_position_xyz(p) == geom_xpos_target(p)
target_position_quat(p) == xquat_target(p)
target_position(p) == target_position_xyz(p) \o target_position_quat(p)

target_direction_yaw(p) ==
    LET q == target_position_quat(p)
    IN  Arctan2(Quat2Mat10(q), Quat2Mat00(q))

target_direction_vec2(p) ==
    LET target_yaw == target_direction_yaw(p)
    IN  <<Cos(target_yaw), Sin(target_yaw)>>

vec3_jitterbug_to_target(p) ==
    [k \in 1 .. 3 |-> target_position_xyz(p)[k] - jitterbug_position_xyz(p)[k]]

\* while angle > np.pi: angle -= 2*np.pi
RECURSIVE WhileAbove(_)
WhileAbove(angle) ==
    IF angle > Pi THEN WhileAbove(angle - 2 * Pi) ELSE angle

\* Mutant: the second loop tests angle < -np.pi.
RECURSIVE WhileBelow_Strict(_)
WhileBelow_Strict(angle) ==
    IF angle < -Pi THEN WhileBelow_Strict(angle + 2 * Pi) ELSE angle

\* while angle <= -np.pi: angle += 2*np.pi
RECURSIVE WhileBelow(_)
WhileBelow(angle) ==
    IF angle <= -Pi THEN WhileBelow(angle + 2 * Pi) ELSE angle

\* The number of times the body of the first loop runs.
RECURSIVE IterationsAbove(_)
IterationsAbove(angle) ==
    IF angle > Pi THEN 1 + IterationsAbove(angle - 2 * Pi) ELSE 0

\* The number of times the body of the second loop runs.
RECURSIVE IterationsBelow(_)
IterationsBelow(angle) ==
    IF angle <= -Pi THEN 1 + IterationsBelow(angle + 2 * Pi) ELSE 0

angle_jitterbug_to_target(p) ==
    LET angle == target_direction_yaw(p) - jitterbug_direction_yaw(p)
    IN  WhileBelow(WhileAbove(angle))

vec2_direction_to_target(p) ==
    LET target_yaw == angle_jitterbug_to_target(p)
    IN  <<Cos(target_yaw), Sin(target_yaw)>>

----------------------------------------------------------------------------
(* numpy.random.RandomState, as far as the task uses it: a generator is a  *)
(* state; a draw returns a value that is a function of the state, and      *)
(* advances it.                                                            *)

RandomState(n) == <<n % RngPeriod>>
Advance(rng) == <<(rng[1] + 1) % RngPeriod>>
\* uniform(low, high) = low + (high - low) * random_sample(), the sample being
\* state / RngPeriod, in [0, 1).
Uniform(rng, low, high) == low + ((high - low) * rng[1]) \div RngPeriod

----------------------------------------------------------------------------
(* The module's registry                                                   *)

\* The functions defined in the module jitterbug.py.
ModuleFunctions ==
    {"get_model_and_assets", "move_from_origin", "face_direction",
     "move_in_direction", "move_to_position", "move_to_pose", "demo"}

\* SUITE._tasks: the functions decorated with @SUITE.add.
SUITE_tasks ==
    {"move_from_origin", "face_direction", "move_in_direction",
     "move_to_position", "move_to_pose"}

\* Mutant: the constructor accepts every function of the module.
task_names_AllFunctions == ModuleFunctions

\* self.task_names
task_names == {name \in ModuleFunctions : name \in SUITE_tasks}

\* The task arguments the model tries.
TaskArgs == ModuleFunctions \cup {"spin_forever"}

----------------------------------------------------------------------------
(* class Jitterbug: the reward terms and the two pure methods              *)

\* Mutant: the np.abs is left out.
face_direction_reward_Signed(p) ==
    LET angle_to_target == angle_jitterbug_to_target(p)
    IN  RSub(RDiv(RInt(2), RAdd(Rat(angle_to_target, Pi), RInt(1))), RInt(1))

face_direction_reward(p) ==
    LET angle_to_target == angle_jitterbug_to_target(p)
    IN  RSub(RDiv(RInt(2), RAdd(Rat(Abs(angle_to_target), Pi), RInt(1))),
             RInt(1))

move_to_position_reward(p) ==
    LET v == vec3_jitterbug_to_target(p)
        dist_to_target == Fixed(ISqrt(v[1] * v[1] + v[2] * v[2] + v[3] * v[3]))
    IN  RDiv(RInt(1), RAdd(RMul(RInt(10), dist_to_target), RInt(1)))

\* Mutant: the cap at 1 is left out.
upright_reward_NoCap(p) == RMax(RInt(0), Fixed(p.xmat_zz))

\* Mutant: the floor at 0 is left out.
upright_reward_NoFloor(p) == RMin(Fixed(p.xmat_zz), RInt(1))

upright_reward(p) == RMin(RMax(RInt(0), Fixed(p.xmat_zz)), RInt(1))

\* max_speed_per_step = 0.3, in hundredths
max_speed_per_step == 30

\* jitterbug_vel @ target_vel
VelocityDotTarget(p) ==
    LET jitterbug_vel == SubSeq(jitterbug_velocity_xyz(p), 1, 2)
        target_vel == target_direction_vec2(p)
    IN  Rat(jitterbug_vel[1] * target_vel[1] + jitterbug_vel[2] * target_vel[2],
            100 * 100)

\* Mutant: the min(..., 1.0) is left out.
move_in_direction_reward_NoCap(p) ==
    RDiv(RMax(RInt(0), VelocityDotTarget(p)), Fixed(max_speed_per_step))

move_in_direction_reward(p) ==
    RMin(RDiv(RMax(RInt(0), VelocityDotTarget(p)), Fixed(max_speed_per_step)),
         RInt(1))

ValueError == [err |-> "ValueError", val |-> <<>>]
Returns(v) == [err |-> "", val |-> v]

\* get_reward before the uprightness factor: the dispatch on self.task.
reward_dispatch(p, t) ==
    IF t = "move_from_origin" THEN
        Returns(RSub(RInt(1), move_to_position_reward(p)))
    ELSE IF t = "face_direction" THEN
        Returns(face_direction_reward(p))
    ELSE IF t = "move_in_direction" THEN
        Returns(move_in_direction_reward(p))
    ELSE IF t = "move_to_position" THEN
        Returns(move_to_position_reward(p))
    ELSE IF t = "move_to_pose" THEN
        Returns(RMul(move_to_position_reward(p), face_direction_reward(p)))
    ELSE ValueError

\* Mutant: the uprightness factor is left out.
get_reward_value_NoUpright(p, t) == reward_dispatch(p, t)

get_reward_value(p, t) ==
    LET r == reward_dispatch(p, t)
    IN  IF r.err # "" THEN r
        ELSE Returns(RMul(r.val, upright_reward(p)))

\* The four fields every observation starts with.
base_observation(p) ==
    << <<"position", jitterbug_position(p)>>,
       <<"velocity", jitterbug_velocity(p)>>,
       <<"motor_position", motor_position(p)>>,
       <<"motor_velocity", motor_velocity(p)>> >>

\* Mutant: move_to_pose stores its two target fields in the other order.
get_observation_value_Swapped(p, t) ==
    LET obs == base_observation(p)
    IN  IF t = "move_from_origin" THEN
            Returns(obs)
        ELSE IF t \in {"face_direction", "move_in_direction"} THEN
            Returns(Append(obs, <<"target_direction", vec2_direction_to_target(p)>>))
        ELSE IF t = "move_to_position" THEN
            Returns(Append(obs, <<"target_position", vec3_jitterbug_to_target(p)>>))
        ELSE IF t = "move_to_pose" THEN
            Returns(Append(Append(obs,
                <<"target_direction", vec2_direction_to_target(p)>>),
                <<"target_position", vec3_jitterbug_to_target(p)>>))
        ELSE ValueError

get_observation_value(p, t) ==
    LET obs == base_observation(p)
    IN  IF t = "move_from_origin" THEN
            Returns(obs)
        ELSE IF t = "face_direction" THEN
            Returns(Append(obs, <<"target_direction", vec2_direction_to_target(p)>>))
        ELSE IF t = "move_in_direction" THEN
            Returns(Append(obs, <<"target_direction", vec2_direction_to_target(p)>>))
        ELSE IF t = "move_to_position" THEN
            Returns(Append(obs, <<"target_position", vec3_jitterbug_to_target(p)>>))
        ELSE IF t = "move_to_pose" THEN
            Returns(Append(Append(obs,
                <<"target_position", vec3_jitterbug_to_target(p)>>),
                <<"target_direction", vec2_direction_to_target(p)>>))
        ELSE ValueError

----------------------------------------------------------------------------
(* class Jitterbug: construction and the episode reset                     *)

AssertionError == [err |-> "AssertionError", val |-> <<>>]

\* Mutant: the reflection keeps every function of the module, decorated or
\* not.
Jitterbug__init__Reflect(i, rand, t) ==
    /\ task[i] = NoTask
    /\ IF t \notin ModuleFunctions
       THEN /\ ret' = [who |-> i, op |-> "__init__",
                       err |-> AssertionError.err, val |-> <<t>>]
            /\ UNCHANGED <<task, random, npRandom, physics, seed, resets>>
       ELSE /\ task' = [task EXCEPT ![i] = t]
            /\ random' = [random EXCEPT ![i] = RandomState(rand)]
            /\ seed' = [seed EXCEPT ![i] = <<rand>>]
            /\ ret' = [who |-> i, op |-> "__init__", err |-> "", val |-> <<t>>]
            /\ UNCHANGED <<npRandom, physics, resets>>

\* Jitterbug.__init__(random, task): the assertion comes first; self.task is
\* set and the base class makes self.random from the seed only after it.
Jitterbug__init__(i, rand, t) ==
    /\ task[i] = NoTask
    /\ IF t \notin task_names
       THEN /\ ret' = [who |-> i, op |-> "__init__",
                       err |-> AssertionError.err, val |-> <<t>>]
            /\ UNCHANGED <<task, random, npRandom, physics, seed, resets>>
       ELSE /\ task' = [task EXCEPT ![i] = t]
            /\ random' = [random EXCEPT ![i] = RandomState(rand)]
            /\ seed' = [seed EXCEPT ![i] = <<rand>>]
            /\ ret' = [who |-> i, op |-> "__init__", err |-> "", val |-> <<t>>]
            /\ UNCHANGED <<npRandom, physics, resets>>

\* physics.reset_context(), on entry: physics.reset() puts the simulation data
\* back to the model's defaults; the model's own fields stay.
reset_context(p) ==
    [p EXCEPT !.qpos_root = XmlPhysics.qpos_root,
              !.qvel_root = XmlPhysics.qvel_root,
              !.qpos_jointMass = XmlPhysics.qpos_jointMass,
              !.qvel_jointMass = XmlPhysics.qvel_jointMass,
              !.xmat_zz = XmlPhysics.xmat_zz]

\* The three draws of initialize_episode, in program order, and the two
\* generators after them: angle and radius from self.random, yaw from
\* np.random.
\* Mutant: the radius is drawn before the angle.
episode_draws_RadiusFirst(self_random, np_random) ==
    LET radius == Uniform(self_random, 5, 30)
        random1 == Advance(self_random)
        angle == Uniform(random1, 0, 2 * Pi)
        random2 == Advance(random1)
        yaw == Uniform(np_random, 0, 2 * Pi)
    IN  [angle |-> angle, radius |-> radius, yaw |-> yaw,
         self_random |-> random2, np_random |-> Advance(np_random)]

episode_draws(self_random, np_random) ==
    LET angle == Uniform(self_random, 0, 2 * Pi)
        random1 == Advance(self_random)
        radius == Uniform(random1, 5, 30)
        random2 == Advance(random1)
        yaw == Uniform(np_random, 0, 2 * Pi)
    IN  [angle |-> angle, radius |-> radius, yaw |-> yaw,
         self_random |-> random2, np_random |-> Advance(np_random)]

\* radius * np.sin(angle), in hundredths
Times(radius, trig) == (radius * trig) \div 100

\* Mutant: move_to_position randomizes the orientation too, as move_to_pose
\* does.
episode_writes_FullPose(p, t, angle, radius, yaw) ==
    IF t = "move_from_origin" THEN
        Returns([p EXCEPT !.rgba_targetPointer_alpha = 0])
    ELSE IF t \in {"face_direction", "move_in_direction"} THEN
        Returns([p EXCEPT !.body_quat_target = YawQuat(yaw)])
    ELSE IF t = "move_to_position" THEN
        Returns([p EXCEPT !.rgba_targetPointer_alpha = 0,
                          !.body_pos_target[1] = Times(radius, Sin(angle)),
                          !.body_pos_target[2] = Times(radius, Cos(angle)),
                          !.body_quat_target = YawQuat(yaw)])
    ELSE IF t = "move_to_pose" THEN
        Returns([p EXCEPT !.body_pos_target[1] = Times(radius, Sin(angle)),
                          !.body_pos_target[2] = Times(radius, Cos(angle)),
                          !.body_quat_target = YawQuat(yaw)])
    ELSE [err |-> ValueError.err, val |-> p]

\* Mutant: move_to_position does not hide the heading pointer.
episode_writes_PointerLeft(p, t, angle, radius, yaw) ==
    IF t = "move_from_origin" THEN
        Returns([p EXCEPT !.rgba_targetPointer_alpha = 0])
    ELSE IF t \in {"face_direction", "move_in_direction"} THEN
        Returns([p EXCEPT !.body_quat_target = YawQuat(yaw)])
    ELSE IF t = "move_to_position" THEN
        Returns([p EXCEPT !.body_pos_target[1] = Times(radius, Sin(angle)),
                          !.body_pos_target[2] = Times(radius, Cos(angle))])
    ELSE IF t = "move_to_pose" THEN
        Returns([p EXCEPT !.body_pos_target[1] = Times(radius, Sin(angle)),
                          !.body_pos_target[2] = Times(radius, Cos(angle)),
                          !.body_quat_target = YawQuat(yaw)])
    ELSE [err |-> ValueError.err, val |-> p]

\* The writes of initialize_episode for task t, given the draws.
episode_writes(p, t, angle, radius, yaw) ==
    IF t = "move_from_origin" THEN
        Returns([p EXCEPT !.rgba_targetPointer_alpha = 0])
    ELSE IF t = "face_direction" THEN
        Returns([p EXCEPT !.body_quat_target = YawQuat(yaw)])
    ELSE IF t = "move_in_direction" THEN
        Returns([p EXCEPT !.body_quat_target = YawQuat(yaw)])
    ELSE IF t = "move_to_position" THEN
        Returns([p EXCEPT !.rgba_targetPointer_alpha = 0,
                          !.body_pos_target[1] = Times(radius, Sin(angle)),
                          !.body_pos_target[2] = Times(radius, Cos(angle))])
    ELSE IF t = "move_to_pose" THEN
        Returns([p EXCEPT !.body_pos_target[1] = Times(radius, Sin(angle)),
                          !.body_pos_target[2] = Times(radius, Cos(angle)),
                          !.body_quat_target = YawQuat(yaw)])
    ELSE [err |-> ValueError.err, val |-> p]

initialize_episode(i) ==
    /\ task[i] # NoTask
    /\ resets[i] < MaxResets
    /\ LET d == episode_draws(random[i], npRandom)
           out == episode_writes(reset_context(physics[i]), task[i],
                                 d.angle, d.radius, d.yaw)
       IN  /\ random' = [random EXCEPT ![i] = d.self_random]
           /\ npRandom' = d.np_random
           /\ physics' = [physics EXCEPT ![i] = out.val]
           /\ ret' = [who |-> i, op |-> "initialize_episode", err |-> out.err,
                      val |-> <<d.angle, d.radius, d.yaw>>]
    /\ resets' = [resets EXCEPT ![i] = @ + 1]
    /\ UNCHANGED <<task, seed>>

get_observation(i) ==
    /\ task[i] # NoTask
    /\ LET out == get_observation_value(physics[i], task[i])
       IN  ret' = [who |-> i, op |-> "get_observation",
                   err |-> out.err, val |-> out.val]
    /\ UNCHANGED <<task, random, npRandom, physics, seed, resets>>

\* Mutant: the reward draws noise from the task's generator.
get_reward_Noisy(i) ==
    /\ task[i] # NoTask
    /\ LET out == get_reward_value(physics[i], task[i])
       IN  ret' = [who |-> i, op |-> "get_reward",
                   err |-> out.err, val |-> out.val]
    /\ random' = [random EXCEPT ![i] = Advance(@)]
    /\ UNCHANGED <<task, npRandom, physics, seed, resets>>

get_reward(i) ==
    /\ task[i] # NoTask
    /\ LET out == get_reward_value(physics[i], task[i])
       IN  ret' = [who |-> i, op |-> "get_reward",
                   err |-> out.err, val |-> out.val]
    /\ UNCHANGED <<task, random, npRandom, physics, seed, resets>>

----------------------------------------------------------------------------
(* The environment around the task                                         *)

\* The robot orientations a physics step may leave: the rotations about the
\* world Z axis on the grid.
RobotQuats == {YawQuat(2 * k) : k \in 0 .. Pi - 1}

\* The rest of the robot's state a physics step may leave: position, velocity,
\* motor joint and the ZZ entry of the body's rotation matrix.
RobotMotions ==
    {[pos |-> <<0, 0, 0>>, vel |-> <<0, 0, 0, 0, 0, 0>>, motor |-> <<0, 0>>,
      zz |-> 100],
     [pos |-> <<3, 4, 0>>, vel |-> <<30, 0, 0, 0, 0, 0>>, motor |-> <<3, 80>>,
      zz |-> 100],
     [pos |-> <<0, -20, 0>>, vel |-> <<-10, 20, 0, 0, 0, 5>>,
      motor |-> <<-3, -80>>, zz |-> 50],
     [pos |-> <<6, 8, 0>>, vel |-> <<40, 40, 0, 0, 0, 0>>, motor |-> <<1, 80>>,
      zz |-> 150],
     [pos |-> <<-12, 5, 0>>, vel |-> <<0, 15, -2, 1, 0, 0>>,
      motor |-> <<2, 80>>, zz |-> -50],
     [pos |-> <<0, 11, 1>>, vel |-> <<12, -9, 0, 0, 0, 0>>, motor |-> <<0, 80>>,
      zz |-> 0]}

\* One control step of the engine: the robot's state moves, the model's
\* fields (the target, the pointer) stay.
PhysicsStep(i) ==
    /\ task[i] # NoTask
    /\ resets[i] >= 1
    /\ \E q \in RobotQuats, m \in RobotMotions :
          physics' = [physics EXCEPT ![i] =
                         [@ EXCEPT !.qpos_root = m.pos \o q,
                                   !.qvel_root = m.vel,
                                   !.qpos_jointMass = m.motor[1],
                                   !.qvel_jointMass = m.motor[2],
                                   !.xmat_zz = m.zz]]
    /\ ret' = NoRet
    /\ UNCHANGED <<task, random, npRandom, seed, resets>>

\* Any other code of the process draws from np.random.
GlobalDraw ==
    /\ npRandom' = Advance(npRandom)
    /\ ret' = NoRet
    /\ UNCHANGED <<task, random, physics, seed, resets>>

Init ==
    /\ task = [i \in Tasks |-> NoTask]
    /\ random = [i \in Tasks |-> NoRNG]
    /\ npRandom \in {RandomState(n) : n \in 0 .. RngPeriod - 1}
    /\ physics = [i \in Tasks |-> XmlPhysics]
    /\ seed = [i \in Tasks |-> NoSeed]
    /\ resets = [i \in Tasks |-> 0]
    /\ ret = NoRet

\* One environment: construction, resets, steps, observations and rewards.
Next ==
    \/ \E i \in Single, rand \in Seeds, t \in TaskArgs : Jitterbug__init__(i, rand, t)
    \/ \E i \in Single : initialize_episode(i)
    \/ \E i \in Single : get_observation(i)
    \/ \E i \in Single : get_reward(i)
    \/ \E i \in Single : PhysicsStep(i)
    \/ GlobalDraw

Spec == Init /\ [][Next]_vars

\* Several environments in one process, their constructions and resets
\* interleaved.
NextMulti ==
    \/ \E i \in Tasks, rand \in Seeds, t \in TaskArgs : Jitterbug__init__(i, rand, t)
    \/ \E i \in Tasks : initialize_episode(i)
    \/ GlobalDraw

SpecMulti == Init /\ [][NextMulti]_vars

----------------------------------------------------------------------------
(* The claims                                                              *)

\* The instances that exist.
Constructed == {i \in Tasks : task[i] # NoTask}

InHalfOpenTurn(a) == -Pi < a /\ a <= Pi

\* The raw difference angle_jitterbug_to_target starts from.
RawAngle(p) == target_direction_yaw(p) - jitterbug_direction_yaw(p)

\* C1: for every robot and target orientation, angle_jitterbug_to_target
\* returns a value in (-pi, pi], also when the raw difference targetYaw -
\* robotYaw lies exactly on -pi, pi or another odd multiple of pi.
C1_RelativeYawInRange ==
    \A i \in Constructed : InHalfOpenTurn(angle_jitterbug_to_target(physics[i]))

\* C1's case: a raw difference of exactly -pi, which comes back as +pi.
C1_Witness ==
    \E i \in Constructed :
        /\ RawAngle(physics[i]) = -Pi
        /\ angle_jitterbug_to_target(physics[i]) = Pi

\* C2: two tasks of the same variant, constructed with the same seed and
\* reset the same number of times, hold the same target position and the same
\* target yaw, whatever else has drawn random numbers in between.
C2_SameSeedSameTarget ==
    \A i \in Constructed : \A j \in Constructed :
        (task[i] = task[j] /\ seed[i] = seed[j] /\ resets[i] = resets[j])
            => /\ target_position_xyz(physics[i]) = target_position_xyz(physics[j])
               /\ target_direction_yaw(physics[i]) = target_direction_yaw(physics[j])

\* The five registered variants, as the claims name them.
Variants ==
    {"move_from_origin", "face_direction", "move_in_direction",
     "move_to_position", "move_to_pose"}

\* C3: constructing with a task identifier outside the five registered
\* variants fails in the constructor: no instance with that variant comes to
\* exist, no generator is made or advanced and no simulation state changes;
\* constructing with one of the five succeeds.
C3_ConstructorFailsFast ==
    /\ [](\A i \in Tasks : task[i] \in Variants \cup {NoTask})
    /\ [][\A i \in Tasks, rand \in Seeds, t \in TaskArgs :
            Jitterbug__init__(i, rand, t) =>
                IF t \in Variants
                THEN /\ ret'.err = ""
                     /\ task'[i] = t
                     /\ random'[i] = RandomState(rand)
                ELSE /\ ret'.err = "AssertionError"
                     /\ UNCHANGED <<task, random, npRandom, physics>>]_vars

\* C3's case: the constructor was called with "spin_forever" and raised.
C3_Witness ==
    /\ ret.op = "__init__"
    /\ ret.val = <<"spin_forever">>
    /\ ret.err = "AssertionError"
    /\ task[ret.who] = NoTask
    /\ random[ret.who] = NoRNG

\* The field names of an observation, in order.
FieldNames(obs) == [k \in 1 .. Len(obs) |-> obs[k][1]]

BaseFields == <<"position", "velocity", "motor_position", "motor_velocity">>

\* The fields C4 lists for each variant.
ExpectedFields(t) ==
    CASE t = "move_from_origin" -> BaseFields
      [] t = "face_direction" -> BaseFields \o <<"target_direction">>
      [] t = "move_in_direction" -> BaseFields \o <<"target_direction">>
      [] t = "move_to_position" -> BaseFields \o <<"target_position">>
      [] t = "move_to_pose" ->
            BaseFields \o <<"target_position", "target_direction">>

\* C4: get_observation returns, for every variant and in every simulation
\* state, exactly the four base fields in order followed by the variant's
\* target fields in order.
C4_ObservationFields ==
    ret.op = "get_observation" =>
        /\ ret.err = ""
        /\ FieldNames(ret.val) = ExpectedFields(task[ret.who])

\* C4's case: a move_to_pose observation taken after the robot has moved.
C4_Witness ==
    /\ ret.op = "get_observation"
    /\ task[ret.who] = "move_to_pose"
    /\ Len(ret.val) = 6
    /\ physics[ret.who].qpos_root # XmlPhysics.qpos_root

\* The base reward C5 gives for each variant.
BaseReward(p, t) ==
    CASE t = "move_from_origin" -> RSub(RInt(1), move_to_position_reward(p))
      [] t = "face_direction" -> face_direction_reward(p)
      [] t = "move_in_direction" -> move_in_direction_reward(p)
      [] t = "move_to_position" -> move_to_position_reward(p)
      [] t = "move_to_pose" ->
            RMul(move_to_position_reward(p), face_direction_reward(p))

\* C5: get_reward returns the variant's base reward times the uprightness; so
\* it is 0 when the uprightness is 0, and for move_to_pose also when either
\* factor is 0.
C5_RewardIsBaseTimesUpright ==
    ret.op = "get_reward" =>
        LET p == physics[ret.who]
            t == task[ret.who]
        IN  /\ ret.err = ""
            /\ ret.val = RMul(BaseReward(p, t), upright_reward(p))
            /\ upright_reward(p) = RInt(0) => ret.val = RInt(0)
            /\ (/\ t = "move_to_pose"
                /\ \/ move_to_position_reward(p) = RInt(0)
                   \/ face_direction_reward(p) = RInt(0))
                    => ret.val = RInt(0)

\* C5's case: a move_to_pose reward damped by a half-tipped robot.
C5_Witness ==
    /\ ret.op = "get_reward"
    /\ task[ret.who] = "move_to_pose"
    /\ upright_reward(physics[ret.who]) = Rat(1, 2)
    /\ ret.val # RInt(0)
    /\ ret.val # BaseReward(physics[ret.who], "move_to_pose")

\* The robot's pose, velocity and motor state.
RobotState(p) ==
    <<p.qpos_root, p.qvel_root, p.qpos_jointMass, p.qvel_jointMass>>

\* C6: initialize_episode writes only the target fields its variant
\* randomizes: move_from_origin neither position nor orientation;
\* face_direction and move_in_direction the orientation only;
\* move_to_position x and y only; move_to_pose both.  A written orientation is
\* (cos(yaw/2), 0, 0, sin(yaw/2)).  The robot's pose, velocity and motor state
\* are what entering the reset context left: the variant's code writes none.
C6_EpisodeWritesOnlyItsFields ==
    [][\A i \in Tasks :
        initialize_episode(i) =>
            LET p == physics[i]
                q == physics'[i]
                t == task[i]
                angle == ret'.val[1]
                radius == ret'.val[2]
                yaw == ret'.val[3]
            IN  /\ t \in {"move_from_origin", "face_direction", "move_in_direction"}
                    => q.body_pos_target = p.body_pos_target
                /\ t \in {"move_from_origin", "move_to_position"}
                    => q.body_quat_target = p.body_quat_target
                /\ t \in {"face_direction", "move_in_direction", "move_to_pose"}
                    => /\ q.body_quat_target =
                            <<Cos(yaw \div 2), 0, 0, Sin(yaw \div 2)>>
                       /\ q.body_quat_target[2] = 0
                       /\ q.body_quat_target[3] = 0
                /\ t \in {"move_to_position", "move_to_pose"}
                    => /\ q.body_pos_target[1] = (radius * Sin(angle)) \div 100
                       /\ q.body_pos_target[2] = (radius * Cos(angle)) \div 100
                       /\ q.body_pos_target[3] = p.body_pos_target[3]
                /\ RobotState(q) = RobotState(reset_context(p))
                /\ \A j \in Tasks \ {i} : physics'[j] = physics[j]]_vars

\* C6's case: a move_to_position reset has moved the target off the origin and
\* left its orientation as loaded.
C6_Witness ==
    /\ ret.op = "initialize_episode"
    /\ task[ret.who] = "move_to_position"
    /\ physics[ret.who].body_pos_target # XmlPhysics.body_pos_target
    /\ physics[ret.who].body_quat_target = XmlPhysics.body_quat_target

\* C7: after every initialize_episode the heading pointer is hidden (alpha 0)
\* for move_from_origin and move_to_position and shown (alpha not 0) for
\* face_direction, move_in_direction and move_to_pose.
C7_PointerVisibility ==
    \A i \in Constructed :
        resets[i] >= 1 =>
            LET alpha == physics[i].rgba_targetPointer_alpha
            IN  /\ task[i] \in {"move_from_origin", "move_to_position"}
                    => alpha = 0
                /\ task[i] \in {"face_direction", "move_in_direction", "move_to_pose"}
                    => alpha # 0

\* C7's case: a move_to_position task after its second reset, pointer hidden.
C7_Witness ==
    \E i \in Constructed :
        /\ task[i] = "move_to_position"
        /\ resets[i] = 2
        /\ physics[i].rgba_targetPointer_alpha = 0

\* C8: both yaws the accessors return, jitterbug_direction_yaw and
\* target_direction_yaw, lie in (-pi, pi] for every orientation.
C8_YawsCanonical ==
    \A i \in Constructed :
        /\ InHalfOpenTurn(jitterbug_direction_yaw(physics[i]))
        /\ InHalfOpenTurn(target_direction_yaw(physics[i]))

\* C9: no construction or reset of one instance changes state another
\* instance reads: its task, its generator, its physics, or the np.random
\* generator its next reset draws from.
C9_InstanceIsolation ==
    [][\A i \in Tasks : \A j \in Tasks \ {i} :
        (\/ initialize_episode(i)
         \/ \E rand \in Seeds, t \in TaskArgs : Jitterbug__init__(i, rand, t))
            => /\ task'[j] = task[j]
               /\ random'[j] = random[j]
               /\ physics'[j] = physics[j]
               /\ npRandom' = npRandom]_vars

\* C10: get_observation and get_reward leave the simulation state, the task's
\* variant and every random source unchanged, and a call repeated with nothing
\* in between returns what it returned before.
C10_ObservationAndRewardArePure ==
    [][\A i \in Tasks :
        (/\ ret'.who = i
         /\ ret'.op \in {"get_observation", "get_reward"}
         /\ get_observation(i) \/ get_reward(i)) =>
            /\ UNCHANGED <<task, random, npRandom, physics>>
            /\ (ret.who = i /\ ret.op = ret'.op) => ret' = ret]_vars

\* C10's case: a reward computed between two physics steps, the robot moved
\* off its reset pose.
C10_Witness ==
    /\ ret.op = "get_reward"
    /\ resets[ret.who] >= 1
    /\ RobotState(physics[ret.who]) # RobotState(XmlPhysics)

\* The clamp of a raw ZZ value z (in hundredths) to [0, 1], as C11 states it.
Clamped01(z) ==
    IF z <= 0 THEN RInt(0)
    ELSE IF z >= 100 THEN RInt(1)
    ELSE Rat(z, 100)

\* C11: upright_reward is the rotation matrix's ZZ entry clamped to [0, 1]:
\* 0 for z <= 0, z for 0 <= z <= 1, 1 for z >= 1.
C11_UprightIsClampedZZ ==
    \A i \in Constructed :
        upright_reward(physics[i]) = Clamped01(physics[i].xmat_zz)

\* C11's case: a raw ZZ of 1.5, which yields 1.
C11_Witness ==
    \E i \in Constructed :
        /\ physics[i].xmat_zz = 150
        /\ upright_reward(physics[i]) = RInt(1)

\* The speed at which C12 has the reward saturate: 0.3.
SaturationSpeed == Rat(3, 10)

\* C12: for move_in_direction, the base reward as a function of the projection
\* p of the robot's XY velocity onto the target heading is 0 for p <= 0, 1 for
\* p >= 0.3 and p / 0.3 in between; it is non-decreasing in p (compared here
\* with every other velocity the robot may have) and within [0, 1].
C12_MoveInDirectionReward ==
    \A i \in Constructed :
        task[i] = "move_in_direction" =>
            LET p == physics[i]
                proj == VelocityDotTarget(p)
                r == move_in_direction_reward(p)
            IN  /\ RLe(proj, RInt(0)) => r = RInt(0)
                /\ RLe(SaturationSpeed, proj) => r = RInt(1)
                /\ (RLt(RInt(0), proj) /\ RLt(proj, SaturationSpeed))
                    => r = RDiv(proj, SaturationSpeed)
                /\ RLe(RInt(0), r) /\ RLe(r, RInt(1))
                /\ \A m \in RobotMotions :
                    LET p2 == [p EXCEPT !.qvel_root = m.vel]
                    IN  RLe(proj, VelocityDotTarget(p2))
                            => RLe(r, move_in_direction_reward(p2))

\* C12's case: a move_in_direction robot faster than 0.3 along the target
\* heading, the reward saturated at 1.
C12_Witness ==
    \E i \in Constructed :
        /\ task[i] = "move_in_direction"
        /\ RLt(SaturationSpeed, VelocityDotTarget(physics[i]))
        /\ move_in_direction_reward(physics[i]) = RInt(1)

\* C13: with a the relative yaw angle_jitterbug_to_target returns,
\* face_direction_reward is 1 at a = 0 and 0 at |a| = pi, lies in [0, 1] for
\* every a, and is strictly decreasing in |a| (compared here with every other
\* orientation the robot may have).
C13_FaceDirectionReward ==
    \A i \in Constructed :
        LET p == physics[i]
            a == angle_jitterbug_to_target(p)
            r == face_direction_reward(p)
        IN  /\ a = 0 => r = RInt(1)
            /\ Abs(a) = Pi => r = RInt(0)
            /\ RLe(RInt(0), r) /\ RLe(r, RInt(1))
            /\ \A q \in RobotQuats :
                LET p2 == [p EXCEPT !.qpos_root = SubSeq(@, 1, 3) \o q]
                IN  Abs(a) < Abs(angle_jitterbug_to_target(p2))
                        => RLt(face_direction_reward(p2), r)

\* C13's case: the robot facing exactly away from the target, the reward 0.
C13_Witness ==
    \E i \in Constructed :
        /\ resets[i] >= 1
        /\ angle_jitterbug_to_target(physics[i]) = Pi
        /\ face_direction_reward(physics[i]) = RInt(0)

C15_DispatchInLockstep ==
    /\ [](ret.err # ValueError.err)
    /\ [][\A i \in Tasks : task[i] # NoTask => task'[i] = task[i]]_vars

\* C15's case: a move_to_pose instance, the last branch before the error
\* branch in each dispatch, has been reset and its reward computed without
\* error.
C15_Witness ==
    /\ ret.op = "get_reward"
    /\ ret.err = ""
    /\ task[ret.who] = "move_to_pose"
    /\ resets[ret.who] >= 1

\* C16: for every variant and every simulation state, a raw ZZ component
\* outside [0, 1] included, the value get_reward returns lies in [0, 1].
C16_RewardInUnitInterval ==
    (ret.op = "get_reward" /\ ret.err = "") =>
        /\ RLe(RInt(0), ret.val)
        /\ RLe(ret.val, RInt(1))

\* C16's case: the reward of a robot whose raw ZZ component is 1.5 and whose
\* base reward is 1 has been computed, and is 1.
C16_Witness ==
    /\ ret.op = "get_reward"
    /\ physics[ret.who].xmat_zz > 100
    /\ reward_dispatch(physics[ret.who], task[ret.who]).val = RInt(1)
    /\ ret.val = RInt(1)

\* C17: for every pair of yaw values the accessors produce, the raw difference
\* is less than one turn away from (-pi, pi], the two loops of
\* angle_jitterbug_to_target run their bodies at most once in total (so they
\* terminate), and what the second loop returns is not above pi.
C17_AtMostOneAdjustment ==
    \A i \in Constructed :
        LET raw == RawAngle(physics[i])
            first == WhileAbove(raw)
            second == WhileBelow(first)
        IN  /\ -3 * Pi < raw /\ raw <= 3 * Pi
            /\ first = raw - 2 * Pi * IterationsAbove(raw)
            /\ second = first + 2 * Pi * IterationsBelow(first)
            /\ IterationsAbove(raw) + IterationsBelow(first) <= 1
            /\ second <= Pi
            /\ second = angle_jitterbug_to_target(physics[i])

\* C17's case: a raw difference above pi, which the first loop brings into
\* range in one pass and the second loop leaves alone.
C17_Witness ==
    \E i \in Constructed :
        /\ resets[i] >= 1
        /\ RawAngle(physics[i]) > Pi
        /\ IterationsAbove(RawAngle(physics[i])) = 1
        /\ IterationsBelow(WhileAbove(RawAngle(physics[i]))) = 0
        /\ angle_jitterbug_to_target(physics[i]) = RawAngle(physics[i]) - 2 * Pi

====
